---------------------------- MODULE Spec2Model ----------------------------
(***************************************************************************)
(* go-chrome-framework: the browser facade (type chrome), its handshake    *)
(* retry loop, and the tab (type tab) with its lazy connect and hooks.     *)
(*                                                                         *)
(* Conventions                                                             *)
(*   - a Go pointer to an int is a sequence: <<>> is nil, <<n>> points to  *)
(*     n (SetPort allocates a fresh int on every call, so a pointee is     *)
(*     never written after it is created);                                 *)
(*   - a Go error is a sequence: <<>> is nil, <<kind, ...>> an error;      *)
(*   - a connection handle is an index into conns, 0 is nil; a client is   *)
(*     named by the connection it wraps (cdp.NewClient(conn)), 0 is nil;   *)
(*   - a process handle is an index into procs, 0 is a nil *os.Process;    *)
(*   - durations are counted in units of 100 ms.                           *)
(***************************************************************************)
EXTENDS Integers, Sequences, FiniteSets, TLC

VARIABLES
    opts,      \* the caller's *LaunchOpts value
    command,   \* chrome.command (*exec.Cmd)
    cport,     \* chrome.port (*int)
    cconn,     \* chrome.conn (*rpcc.Conn)
    cclient,   \* chrome.client (*cdp.Client)
    procs,     \* the OS processes started so far: [state, signal]
    conns,     \* every connection dialled so far: [url, open]
    tabs,      \* the tab objects created so far
    pc,        \* where the facade is: "idle", or inside chrome.connect
    hs,        \* the locals of a running chrome.connect / Retrier.RunContext
    ret,       \* what the last facade call returned
    lastOp,    \* what the last tab call did and returned
    hist,      \* per tab: how its last connect/disconnect ended
    crashed,   \* a nil dereference panicked the program
    frames     \* per caller goroutine: the tab call it is inside, and where

vars == <<opts, command, cport, cconn, cclient, procs, conns, tabs, pc, hs,
          ret, lastOp, hist, crashed, frames>>

facadeVars == <<opts, command, cport, cconn, cclient, procs, pc, hs, ret>>

(***************************************************************************)
(* Bounds of the model.                                                    *)
(***************************************************************************)
MaxLaunch == 1
MaxArgs == 1
MaxTabs == 2
MaxHooks == 2
MaxConns == 3
MaxTargets == 2
MaxWideArgs == 2
MaxRelaunch == 2

Ports == {9333}
ExtraArgs == {"--window-size=800,600"}
TargetIDs == {"T1", "T2"}
HookIds == {"A", "B"}

NoErr == <<>>

(***************************************************************************)
(* converters                                                              *)
(***************************************************************************)
IntPtr(number) == <<number>>

IntValue(number) == IF number # <<>> THEN number[1] ELSE 0

(***************************************************************************)
(* LaunchOpts                                                              *)
(***************************************************************************)
NewLaunchOpts == [path |-> "", port |-> <<>>, arguments |-> <<>>, headless |-> TRUE]

SetPort(l, port) == [l EXCEPT !.port = <<port>>]

SetArguments(l, arguments) == [l EXCEPT !.arguments = l.arguments \o arguments]

SetHeadless(l, headless) == [l EXCEPT !.headless = headless]

\* The option values a caller can build: NewLaunchOpts() and then any setters.
RECURSIVE ArgLists(_)
ArgLists(n) ==
    IF n = 0 THEN {<<>>}
    ELSE ArgLists(n - 1) \cup {Append(l, a) : l \in {x \in ArgLists(n - 1) : Len(x) = n - 1}, a \in ExtraArgs}

LaunchOptsValues ==
    {NewLaunchOpts}
    \cup {SetPort(NewLaunchOpts, p) : p \in Ports}
    \cup {SetArguments(NewLaunchOpts, args) : args \in ArgLists(MaxArgs)}
    \cup {SetHeadless(SetArguments(SetPort(NewLaunchOpts, p), args), FALSE) :
            p \in Ports, args \in ArgLists(MaxArgs)}

\* The same with up to MaxWideArgs extra arguments out of three.
WideArgs == {"--window-size=800,600", "--lang=en", "--mute-audio"}

RECURSIVE ArgListsOver(_, _)
ArgListsOver(S, n) ==
    IF n = 0 THEN {<<>>}
    ELSE ArgListsOver(S, n - 1)
         \cup {Append(l, a) : l \in {x \in ArgListsOver(S, n - 1) : Len(x) = n - 1}, a \in S}

LaunchOptsWide ==
    {SetHeadless(SetArguments(l, args), h) :
        l \in {NewLaunchOpts} \cup {SetPort(NewLaunchOpts, p) : p \in Ports},
        args \in ArgListsOver(WideArgs, MaxWideArgs),
        h \in BOOLEAN}

DefaultPort == 9222

\* A Launch that takes the port of the options as it is.
ResolvePortNoDefault(o) == o.port

ResolvePort(o) == IF o.port = <<>> THEN IntPtr(DefaultPort) ELSE o.port

\* An argument is <<flag>> or, for the one formatted flag, <<flag, value>>.
DebugPortFlag(p) == <<"--remote-debugging-port=", IntValue(p)>>

DefaultArguments(p) ==
    << <<"--disable-background-networking">>,
       <<"--disable-backgrounding-occluded-windows">>,
       <<"--disable-background-timer-throttling">>,
       <<"--disable-breakpad">>,
       <<"--disable-client-side-phishing-detection">>,
       <<"--disable-default-apps">>,
       <<"--disable-dev-shm-usage">>,
       <<"--disable-extensions">>,
       <<"--disable-features=site-per-process,TranslateUI">>,
       <<"--disable-gpu">>,
       <<"--disable-hang-monitor">>,
       <<"--disable-infobars">>,
       <<"--disable-ipc-flooding-protection">>,
       <<"--disable-popup-blocking">>,
       <<"--disable-prompt-on-repost">>,
       <<"--disable-renderer-backgrounding">>,
       <<"--disable-sync">>,
       <<"--disable-translate">>,
       <<"--enable-features=NetworkService,NetworkServiceInProcess">>,
       <<"--enable-automation">>,
       <<"--force-color-profile=srgb">>,
       <<"--hide-scrollbars">>,
       <<"--ignore-certificate-errors">>,
       <<"--metrics-recording-only">>,
       <<"--mute-audio">>,
       <<"--no-first-run">>,
       <<"--no-sandbox">>,
       <<"--password-store=basic">>,
       DebugPortFlag(p),
       <<"--safebrowsing-disable-auto-update">>,
       <<"--use-mock-keychain">> >>

\* An argument list that ends in --headless whatever the option says.
LaunchArgumentsAlwaysHeadless(o, p) ==
    Append(DefaultArguments(p) \o [i \in 1..Len(o.arguments) |-> <<o.arguments[i]>>],
           <<"--headless">>)

LaunchArguments(o, p) ==
    LET withExtras == DefaultArguments(p) \o [i \in 1..Len(o.arguments) |-> <<o.arguments[i]>>]
    IN  IF o.headless THEN Append(withExtras, <<"--headless">>) ELSE withExtras

\* The URL the handshake asks for the version: "http://localhost:%v".
HandshakeEndpoint(p) == [scheme |-> "http", host |-> "localhost", port |-> IntValue(p)]

\* The URL a tab dials: "ws://127.0.0.1:%v/devtools/page/%v".
TabEndpoint(t) ==
    [scheme |-> "ws", host |-> "127.0.0.1", port |-> IntValue(t.port), page |-> t.id]

(***************************************************************************)
(* The retry policy: retry.NewRetrier(5, 100ms, 1s).  A failed attempt is  *)
(* followed by a jittered sleep of at most min(maxDelay, initialDelay *    *)
(* 2^attempts); the model samples the jitter at 0 and at the cap.          *)
(***************************************************************************)
MaxTries == 5
InitialDelay == 1
MaxDelay == 10

Min(a, b) == IF a < b THEN a ELSE b

\* An exponential backoff that is never capped.
getnextBackoffUncapped(attempts) == InitialDelay * 2^attempts

getnextBackoff(attempts) == Min(MaxDelay, InitialDelay * 2^attempts)

Backoffs(attempts) ==
    {d \in 0..getnextBackoff(attempts) : d = 0 \/ d = getnextBackoff(attempts)}

\* Retrier.RunContext stops when the attempts are used up.
\* A retrier that gives up one attempt early.
RetrierExhaustedEarly(attempts) == attempts = MaxTries - 1

RetrierExhausted(attempts) == attempts = MaxTries

(***************************************************************************)
(* The browser, as the handshake sees it.                                  *)
(***************************************************************************)
TargetTypes == {"page", "service_worker"}

TargetInfo == [type : TargetTypes, id : TargetIDs]

\* Target lists without repeated ids, up to MaxTargets entries.
TargetLists ==
    {l \in UNION {[1..n -> TargetInfo] : n \in 0..MaxTargets} :
        \A i, j \in 1..Len(l) : i # j => l[i].id # l[j].id}

NewTab == [id |-> "", port |-> <<>>, conn |-> 0, client |-> 0, hooks |-> <<>>]

\* The loop over targets.TargetInfos: the first target of type "page" is
\* wrapped, and the loop breaks.
\* A loop without the break: the last target of type "page" wins.
RECURSIVE SelectLastPage(_, _, _, _)
SelectLastPage(t, targets, i, port) ==
    IF i > Len(targets) THEN t
    ELSE IF targets[i].type = "page"
         THEN SelectLastPage([t EXCEPT !.id = targets[i].id, !.port = port],
                             targets, i + 1, port)
         ELSE SelectLastPage(t, targets, i + 1, port)

RECURSIVE SelectPage(_, _, _, _)
SelectPage(t, targets, i, port) ==
    IF i > Len(targets) THEN t
    ELSE IF targets[i].type = "page"
         THEN [t EXCEPT !.id = targets[i].id, !.port = port]
         ELSE SelectPage(t, targets, i + 1, port)

BrowserEndpoint(p) == [scheme |-> "ws", host |-> "localhost", port |-> IntValue(p), page |-> ""]

NoUrl == [scheme |-> "", host |-> "", port |-> 0]

NoCmd == [set |-> FALSE, args |-> <<>>, proc |-> 0]

NoRet == [op |-> "none", tab |-> 0, err |-> NoErr, log |-> NoErr, arg |-> "", calls |-> <<>>]

NoHs == [attempts |-> 0, tries |-> 0, delay |-> 0, ctxDone |-> FALSE,
         err |-> NoErr, tab |-> NewTab, url |-> NoUrl, launchPort |-> <<>>,
         targets |-> <<>>]

NoOp == [op |-> "none", tab |-> 0, pre |-> "fresh", nav |-> FALSE, dials |-> 0,
         hooksRun |-> <<>>, calls |-> <<>>, err |-> NoErr, log |-> NoErr,
         ok |-> FALSE, client |-> 0, applied |-> <<>>, dialOk |-> TRUE,
         hookFails |-> {}, failed |-> {}]

Idle == pc = "idle" /\ ~crashed

tabVars == <<conns, tabs, lastOp, hist>>

NewHist == [status |-> "fresh", nav |-> FALSE]

\* The goroutines that call into tabs, and a goroutine outside any call.
\* A frame holds the call's locals: the operation and its tab, the place
\* reached (pc), whether the deadline of the call's ctx has passed
\* (expired), the position in the hooks or calls (i), and the return value.
Threads == {"g1", "g2"}

NoFrame == [op |-> "none", tab |-> 0, pc |-> "idle", expired |-> FALSE, i |-> 0,
            err |-> NoErr, ok |-> FALSE]

NoFrames == [th \in Threads |-> NoFrame]

\* A Launch that logs the start error and goes on to the handshake.
LaunchIgnoresStartError(o, started) ==
    /\ Idle
    /\ opts' = o
    /\ Len(procs) < MaxLaunch
    /\ Len(tabs) < MaxTabs
    /\ cport' = ResolvePort(o)
    /\ procs' = IF started THEN Append(procs, [state |-> "running", signal |-> ""])
                ELSE procs
    /\ command' = [set |-> TRUE, args |-> LaunchArguments(o, ResolvePort(o)),
                   proc |-> IF started THEN Len(procs) + 1 ELSE 0]
    /\ pc' = "attempt"
    /\ hs' = [NoHs EXCEPT !.launchPort = o.port]
    /\ ret' = IF started THEN NoRet
              ELSE [op |-> "Launch", tab |-> 0, err |-> <<"start", "error", 0>>,
                    log |-> <<"start", "error", 0>>, arg |-> "", calls |-> <<>>]
    /\ UNCHANGED <<cconn, cclient, crashed>>
    /\ UNCHANGED <<tabVars, frames>>

(***************************************************************************)
(* chrome.Launch up to the call of connect: resolve the port, build the    *)
(* arguments, create the command and start it.                             *)
(***************************************************************************)
LaunchCall(o, started) ==
    /\ Idle
    /\ opts' = o
    /\ Len(tabs) < MaxTabs
    /\ LET p == ResolvePort(o)
       IN  /\ cport' = p
           /\ IF started
              THEN /\ procs' = Append(procs, [state |-> "running", signal |-> ""])
                   /\ command' = [set |-> TRUE, args |-> LaunchArguments(o, p),
                                  proc |-> Len(procs) + 1]
                   /\ pc' = "attempt"
                   /\ hs' = [NoHs EXCEPT !.launchPort = o.port]
                   /\ ret' = NoRet
              ELSE /\ procs' = procs
                   /\ command' = [set |-> TRUE, args |-> LaunchArguments(o, p),
                                  proc |-> 0]
                   /\ pc' = "idle"
                   /\ hs' = [NoHs EXCEPT !.launchPort = o.port]
                   /\ ret' = [op |-> "Launch", tab |-> 0, err |-> <<"start", "error", 0>>,
                              log |-> <<"start", "error", 0>>, arg |-> "", calls |-> <<>>]
    /\ UNCHANGED <<cconn, cclient, crashed>>
    /\ UNCHANGED <<tabVars, frames>>

\* The Launch calls on a facade that has started fewer than MaxLaunch
\* processes so far.
Launch(o, started) == Len(procs) < MaxLaunch /\ LaunchCall(o, started)

\* A Launch call on a facade that has started MaxLaunch processes already.
Relaunch(o, started) ==
    /\ MaxLaunch <= Len(procs) /\ Len(procs) < MaxRelaunch
    /\ LaunchCall(o, started)

(***************************************************************************)
(* One run of the function chrome.connect hands to Retrier.RunContext,     *)
(* followed by the retrier's bookkeeping.  out says how the browser        *)
(* answered: the stage that failed ("none": all three succeeded), why, and *)
(* the target list returned.                                               *)
(***************************************************************************)
AttemptOutcomes ==
    [stage : {"version", "dial", "targets"}, cause : {"error", "deadline"}, targets : {<<>>}]
    \cup [stage : {"none"}, cause : {"none"}, targets : TargetLists]

AttemptErr(out, n) == IF out.stage = "none" THEN NoErr ELSE <<out.stage, out.cause, n>>

\* rpcc.DialContext returned a connection (the failure, if any, came later).
Dialled(out) == out.stage \in {"targets", "none"}

\* What c.conn is assigned: nothing before the dial, nil by a failed dial.
AttemptConn(out, old, new) ==
    IF out.stage = "version" THEN old
    ELSE IF out.stage = "dial" THEN 0
    ELSE new

AttemptClient(out, old, new) == IF Dialled(out) THEN new ELSE old

\* Retrier.RunContext after a run of the function: done on success or when
\* the attempts are used up; done with the context's error when the deadline
\* passed during the run or passes during the sleep; else sleep and go on.
\* A retrier that looks at the attempts only and sleeps through the deadline.
AfterAttemptNoDeadline(err, attempts, expired) ==
    IF err = NoErr THEN "ok"
    ELSE IF RetrierExhausted(attempts) THEN "exhausted"
    ELSE "retry"

AfterAttempt(err, attempts, expired) ==
    IF err = NoErr THEN "ok"
    ELSE IF RetrierExhausted(attempts) THEN "exhausted"
    ELSE IF expired THEN "deadline"
    ELSE "retry"

\* d is the jittered sleep that follows a failed run, expire says that the
\* context's deadline passes during that sleep.
Attempt(out, d, expire) ==
    /\ pc = "attempt" /\ ~crashed
    /\ Dialled(out) => Len(conns) < MaxConns
    /\ LET n == hs.tries + 1
           err == AttemptErr(out, n)
           new == Len(conns) + 1
           attempts == IF err = NoErr THEN hs.attempts ELSE hs.attempts + 1
           after == AfterAttempt(err, attempts, out.cause = "deadline" \/ expire)
       IN  /\ d \in Backoffs(attempts)
           /\ conns' = IF Dialled(out)
                       THEN Append(conns, [url |-> BrowserEndpoint(cport), open |-> TRUE])
                       ELSE conns
           /\ cconn' = AttemptConn(out, cconn, new)
           /\ cclient' = AttemptClient(out, cclient, new)
           /\ hs' = [hs EXCEPT !.tries = n,
                               !.attempts = attempts,
                               !.err = IF after = "deadline"
                                       THEN <<"context", "deadline", n>>
                                       ELSE IF after = "retry" THEN NoErr ELSE err,
                               !.ctxDone = out.cause = "deadline" \/ after = "deadline",
                               !.delay = IF after = "retry" THEN d ELSE @,
                               !.url = HandshakeEndpoint(cport),
                               !.tab = IF err = NoErr
                                       THEN SelectPage(hs.tab, out.targets, 1, cport)
                                       ELSE hs.tab,
                               !.targets = out.targets]
           /\ pc' = IF after = "retry" THEN "attempt" ELSE "connected"
    /\ UNCHANGED <<opts, command, cport, procs, ret, crashed, tabs, lastOp, frames, hist>>

\* A Launch that kills the process it started when the handshake fails.
LaunchReturnKilling ==
    /\ pc = "connected" /\ ~crashed
    /\ pc' = "idle"
    /\ hs' = [NoHs EXCEPT !.url = hs.url, !.launchPort = hs.launchPort]
    /\ IF hs.err # NoErr
       THEN /\ ret' = [op |-> "Launch", tab |-> 0, err |-> hs.err, log |-> hs.err, arg |-> "", calls |-> <<>>]
            /\ procs' = [procs EXCEPT ![command.proc] =
                             [state |-> "exited", signal |-> "killed"]]
            /\ UNCHANGED <<tabs, hist>>
       ELSE /\ ret' = [op |-> "Launch", tab |-> Len(tabs) + 1, err |-> NoErr, log |-> NoErr, arg |-> "", calls |-> <<>>]
            /\ tabs' = Append(tabs, hs.tab)
            /\ hist' = Append(hist, NewHist)
            /\ UNCHANGED procs
    /\ UNCHANGED <<opts, command, cport, cconn, cclient, crashed, conns, lastOp, frames>>

\* chrome.connect has returned (tab, err); chrome.Launch returns.
LaunchReturn ==
    /\ pc = "connected" /\ ~crashed
    /\ pc' = "idle"
    /\ hs' = [NoHs EXCEPT !.url = hs.url, !.launchPort = hs.launchPort]
    /\ IF hs.err # NoErr
       THEN /\ ret' = [op |-> "Launch", tab |-> 0, err |-> hs.err, log |-> hs.err, arg |-> "", calls |-> <<>>]
            /\ UNCHANGED <<tabs, hist>>
       ELSE /\ ret' = [op |-> "Launch", tab |-> Len(tabs) + 1, err |-> NoErr, log |-> NoErr, arg |-> "", calls |-> <<>>]
            /\ tabs' = Append(tabs, hs.tab)
            /\ hist' = Append(hist, NewHist)
    /\ UNCHANGED <<opts, command, cport, cconn, cclient, procs, crashed, conns, lastOp, frames>>

(***************************************************************************)
(* The process: os.Process.Kill and exec.Cmd.Wait.                         *)
(***************************************************************************)
\* A process is "running", "exited" (not yet reaped) or "done" (reaped by
\* Wait); signal is "killed" once Kill has delivered its signal.
\* Process.Kill: a process that Wait has reaped reports "already finished";
\* a running or not yet reaped one takes the signal.
Kill(p) ==
    IF p.state = "done" THEN <<"os: process already finished", "error", 0>> ELSE NoErr

Killed(p) ==
    IF p.state = "running" THEN [state |-> "exited", signal |-> "killed"] ELSE p

\* exec.Cmd.Wait on a started command: the exit error it reports.
WaitErr(p) ==
    IF p.state = "done" THEN <<"exec: Wait was already called", "error", 0>>
    ELSE IF p.signal = "killed" THEN <<"signal: killed", "error", 0>>
    ELSE NoErr

Terminate ==
    /\ Idle
    /\ IF ~command.set
       THEN \* c.command is nil: c.command.Process dereferences it
            /\ crashed' = TRUE
            /\ ret' = [op |-> "Terminate", tab |-> 0, err |-> <<"panic", "nil", 0>>,
                       log |-> NoErr, arg |-> "", calls |-> <<>>]
            /\ UNCHANGED procs
       ELSE IF command.proc # 0
            THEN /\ ret' = [op |-> "Terminate", tab |-> 0,
                            err |-> Kill(procs[command.proc]), log |-> NoErr,
                            arg |-> "", calls |-> <<>>]
                 /\ procs' = [procs EXCEPT ![command.proc] = Killed(@)]
                 /\ UNCHANGED crashed
            ELSE /\ ret' = [op |-> "Terminate", tab |-> 0, err |-> NoErr, log |-> NoErr,
                            arg |-> "", calls |-> <<>>]
                 /\ UNCHANGED <<procs, crashed>>
    /\ UNCHANGED <<opts, command, cport, cconn, cclient, pc, hs>>
    /\ UNCHANGED <<tabVars, frames>>

\* Wait blocks while the process runs, so it returns only in the other states.
Wait ==
    /\ Idle
    /\ IF ~command.set
       THEN /\ crashed' = TRUE
            /\ ret' = [op |-> "Wait", tab |-> 0, err |-> <<"panic", "nil", 0>>,
                       log |-> NoErr, arg |-> "", calls |-> <<>>]
            /\ UNCHANGED procs
       ELSE IF command.proc = 0
            THEN /\ ret' = [op |-> "Wait", tab |-> 0, err |-> NoErr,
                            log |-> <<"exec: not started", "error", 0>>, arg |-> "", calls |-> <<>>]
                 /\ UNCHANGED <<procs, crashed>>
            ELSE /\ procs[command.proc].state # "running"
                 /\ ret' = [op |-> "Wait", tab |-> 0, err |-> NoErr,
                            log |-> WaitErr(procs[command.proc]), arg |-> "", calls |-> <<>>]
                 /\ procs' = [procs EXCEPT ![command.proc].state = "done"]
                 /\ UNCHANGED crashed
    /\ UNCHANGED <<opts, command, cport, cconn, cclient, pc, hs>>
    /\ UNCHANGED <<tabVars, frames>>

\* The browser process exits by itself.
ProcExit(i) ==
    /\ ~crashed
    /\ i \in 1..Len(procs)
    /\ procs[i].state = "running"
    /\ procs' = [procs EXCEPT ![i].state = "exited"]
    /\ UNCHANGED <<opts, command, cport, cconn, cclient, pc, hs, ret, crashed>>
    /\ UNCHANGED <<tabVars, frames>>

(***************************************************************************)
(* Tabs made by the facade.  A protocol call through c.client panics when  *)
(* c.client is nil (no handshake has dialled yet).                         *)
(***************************************************************************)
\* An identifier read from the live session instead of the tab.
GetTargetIDOfSession(t) == IF t.conn = 0 THEN "" ELSE t.id

\* tab.GetTargetID
GetTargetID(t) == t.id

\* A tab constructor that forgets the port.
WrapTabWithoutPort(targetID, port) == [NewTab EXCEPT !.id = targetID]

WrapTab(targetID, port) == [NewTab EXCEPT !.id = targetID, !.port = port]

OpenTab(targetID) ==
    /\ Idle
    /\ Len(tabs) < MaxTabs
    /\ tabs' = Append(tabs, WrapTab(targetID, cport))
    /\ hist' = Append(hist, NewHist)
    /\ ret' = [op |-> "OpenTab", tab |-> Len(tabs) + 1, err |-> NoErr, log |-> NoErr,
               arg |-> targetID, calls |-> <<>>]
    /\ UNCHANGED <<opts, command, cport, cconn, cclient, procs, pc, hs, crashed,
                   conns, lastOp, frames>>

FacadePanic(op) ==
    /\ crashed' = TRUE
    /\ ret' = [op |-> op, tab |-> 0, err |-> <<"panic", "nil", 0>>, log |-> NoErr,
               arg |-> "", calls |-> <<>>]
    /\ UNCHANGED <<tabs, hist>>

OpenNewTab(ok, targetID) ==
    /\ Idle
    /\ Len(tabs) < MaxTabs
    /\ IF cclient = 0
       THEN FacadePanic("OpenNewTab")
       ELSE /\ UNCHANGED crashed
            /\ IF ~ok
               THEN /\ ret' = [op |-> "OpenNewTab", tab |-> 0,
                               err |-> <<"Target.createTarget", "error", 0>>,
                               log |-> <<"Target.createTarget", "error", 0>>,
                               arg |-> "", calls |-> << <<"Target.createTarget", "">> >>]
                    /\ UNCHANGED <<tabs, hist>>
               ELSE /\ ret' = [op |-> "OpenNewTab", tab |-> Len(tabs) + 1, err |-> NoErr,
                               log |-> NoErr,
                               arg |-> "", calls |-> << <<"Target.createTarget", "">> >>]
                    /\ tabs' = Append(tabs, WrapTab(targetID, cport))
                    /\ hist' = Append(hist, NewHist)
    /\ UNCHANGED <<opts, command, cport, cconn, cclient, procs, pc, hs, conns, lastOp, frames>>

\* The identifiers Target.createBrowserContext may answer with.
ContextIDs == {"CTX1", "CTX2"}

\* An OpenNewIncognitoTab that creates its target in the default context.
OpenNewIncognitoTabUnbound(ctxOk, targetOk, ctxID, targetID) ==
    /\ Idle
    /\ Len(tabs) < MaxTabs
    /\ ctxOk \/ (targetOk /\ ctxID = "")
    /\ ctxOk => ctxID # ""
    /\ IF cclient = 0
       THEN FacadePanic("OpenNewIncognitoTab")
       ELSE /\ UNCHANGED crashed
            /\ IF ~ctxOk
               THEN /\ ret' = [op |-> "OpenNewIncognitoTab", tab |-> 0,
                               err |-> <<"Target.createBrowserContext", "error", 0>>,
                               log |-> <<"Target.createBrowserContext", "error", 0>>,
                               arg |-> "",
                               calls |-> << <<"Target.createBrowserContext", "", "">> >>]
                    /\ UNCHANGED <<tabs, hist>>
               ELSE IF ~targetOk
               THEN /\ ret' = [op |-> "OpenNewIncognitoTab", tab |-> 0,
                               err |-> <<"Target.createTarget", "error", 0>>,
                               log |-> <<"Target.createTarget", "error", 0>>,
                               arg |-> "",
                               calls |-> << <<"Target.createBrowserContext", "", ctxID>>,
                                            <<"Target.createTarget", "">> >>]
                    /\ UNCHANGED <<tabs, hist>>
               ELSE /\ ret' = [op |-> "OpenNewIncognitoTab", tab |-> Len(tabs) + 1,
                               err |-> NoErr, log |-> NoErr, arg |-> "",
                               calls |-> << <<"Target.createBrowserContext", "", ctxID>>,
                                            <<"Target.createTarget", "">> >>]
                    /\ tabs' = Append(tabs, WrapTab(targetID, cport))
                    /\ hist' = Append(hist, NewHist)
    /\ UNCHANGED <<opts, command, cport, cconn, cclient, procs, pc, hs, conns, lastOp, frames>>

\* A call is recorded as <<method, argument>>, Target.createBrowserContext
\* as <<method, argument, the context it answered with>>.  ctxID is that
\* answer ("" when the call fails, and then nothing else is asked).
OpenNewIncognitoTab(ctxOk, targetOk, ctxID, targetID) ==
    /\ Idle
    /\ Len(tabs) < MaxTabs
    /\ ctxOk \/ (targetOk /\ ctxID = "")
    /\ ctxOk => ctxID # ""
    /\ IF cclient = 0
       THEN FacadePanic("OpenNewIncognitoTab")
       ELSE /\ UNCHANGED crashed
            /\ IF ~ctxOk
               THEN /\ ret' = [op |-> "OpenNewIncognitoTab", tab |-> 0,
                               err |-> <<"Target.createBrowserContext", "error", 0>>,
                               log |-> <<"Target.createBrowserContext", "error", 0>>,
                               arg |-> "",
                               calls |-> << <<"Target.createBrowserContext", "", "">> >>]
                    /\ UNCHANGED <<tabs, hist>>
               ELSE IF ~targetOk
               THEN /\ ret' = [op |-> "OpenNewIncognitoTab", tab |-> 0,
                               err |-> <<"Target.createTarget", "error", 0>>,
                               log |-> <<"Target.createTarget", "error", 0>>,
                               arg |-> "",
                               calls |-> << <<"Target.createBrowserContext", "", ctxID>>,
                                            <<"Target.createTarget", ctxID>> >>]
                    /\ UNCHANGED <<tabs, hist>>
               ELSE /\ ret' = [op |-> "OpenNewIncognitoTab", tab |-> Len(tabs) + 1,
                               err |-> NoErr, log |-> NoErr, arg |-> "",
                               calls |-> << <<"Target.createBrowserContext", "", ctxID>>,
                                            <<"Target.createTarget", ctxID>> >>]
                    /\ tabs' = Append(tabs, WrapTab(targetID, cport))
                    /\ hist' = Append(hist, NewHist)
    /\ UNCHANGED <<opts, command, cport, cconn, cclient, procs, pc, hs, conns, lastOp, frames>>

\* A CloseTab that shuts every connection dialled so far.
CloseTabClosingConns(t, ok) ==
    /\ Idle
    /\ t \in 1..Len(tabs)
    /\ cclient # 0
    /\ conns' = [i \in 1..Len(conns) |-> [conns[i] EXCEPT !.open = FALSE]]
    /\ ret' = [op |-> "CloseTab", tab |-> t,
               err |-> IF ok THEN NoErr ELSE <<"Target.closeTarget", "error", 0>>,
               log |-> NoErr, arg |-> "",
               calls |-> << <<"Target.closeTarget", GetTargetID(tabs[t])>> >>]
    /\ UNCHANGED <<opts, command, cport, cconn, cclient, procs, pc, hs, lastOp, frames,
                   crashed, tabs, hist>>

CloseTab(t, ok) ==
    /\ Idle
    /\ t \in 1..Len(tabs)
    /\ IF cclient = 0
       THEN FacadePanic("CloseTab")
       ELSE /\ UNCHANGED <<crashed, tabs, hist>>
            /\ ret' = [op |-> "CloseTab", tab |-> t,
                       err |-> IF ok THEN NoErr ELSE <<"Target.closeTarget", "error", 0>>,
                       log |-> NoErr,
                       arg |-> "", calls |-> << <<"Target.closeTarget", GetTargetID(tabs[t])>> >>]
    /\ UNCHANGED <<opts, command, cport, cconn, cclient, procs, pc, hs, conns, lastOp, frames>>

(***************************************************************************)
(* The facade: NewChrome() and a fresh NewLaunchOpts().                    *)
(***************************************************************************)
Init ==
    /\ opts = NewLaunchOpts
    /\ command = NoCmd
    /\ cport = <<>>
    /\ cconn = 0
    /\ cclient = 0
    /\ procs = <<>>
    /\ conns = <<>>
    /\ tabs = <<>>
    /\ pc = "idle"
    /\ hs = NoHs
    /\ ret = NoRet
    /\ lastOp = NoOp
    /\ hist = <<>>
    /\ crashed = FALSE
    /\ frames = NoFrames

\* The process manager and the session connector.
Next ==
    \/ \E o \in LaunchOptsValues, started \in BOOLEAN : Launch(o, started)
    \/ \E out \in AttemptOutcomes :
          IF out.stage = "none"
          THEN Attempt(out, 0, FALSE)
          ELSE \E d \in Backoffs(hs.attempts + 1), expire \in BOOLEAN :
                  Attempt(out, d, expire)
    \/ LaunchReturn
    \/ Terminate
    \/ Wait
    \/ \E i \in 1..MaxLaunch : ProcExit(i)

Spec == Init /\ [][Next]_vars

\* The launch of a facade with the default options, its handshake and its
\* process.
NextProcess ==
    \/ \E started \in BOOLEAN : Launch(NewLaunchOpts, started)
    \/ \E out \in AttemptOutcomes :
          IF out.stage = "none"
          THEN Attempt(out, 0, FALSE)
          ELSE \E d \in Backoffs(hs.attempts + 1), expire \in BOOLEAN :
                  Attempt(out, d, expire)
    \/ LaunchReturn
    \/ Terminate
    \/ Wait
    \/ \E i \in 1..MaxLaunch : ProcExit(i)

SpecProcess == Init /\ [][NextProcess]_vars

\* The launches of a fresh facade over a wider range of option values:
\* the caller has built opts, and calls Launch with it.
InitArgs ==
    /\ opts \in LaunchOptsWide
    /\ command = NoCmd
    /\ cport = <<>>
    /\ cconn = 0
    /\ cclient = 0
    /\ procs = <<>>
    /\ conns = <<>>
    /\ tabs = <<>>
    /\ pc = "idle"
    /\ hs = NoHs
    /\ ret = NoRet
    /\ lastOp = NoOp
    /\ hist = <<>>
    /\ crashed = FALSE
    /\ frames = NoFrames

NextArgs == \E started \in BOOLEAN : Launch(opts, started)

SpecArgs == InitArgs /\ [][NextArgs]_vars

\* The same with Launch called again on a facade that has launched before.
NextRelaunch ==
    \/ Next
    \/ \E o \in LaunchOptsValues, started \in BOOLEAN : Relaunch(o, started)
    \/ \E i \in (MaxLaunch + 1)..MaxRelaunch : ProcExit(i)

SpecRelaunch == Init /\ [][NextRelaunch]_vars

\* The whole facade: the above and the tab constructors.
NextFacade ==
    \/ Next
    \/ \E id \in TargetIDs : OpenTab(id)
    \/ \E ok \in BOOLEAN, id \in TargetIDs : OpenNewTab(ok, id)
    \/ \E ctxOk \in BOOLEAN, targetOk \in BOOLEAN, ctxID \in ContextIDs \cup {""},
          id \in TargetIDs : OpenNewIncognitoTab(ctxOk, targetOk, ctxID, id)
    \/ \E t \in 1..MaxTabs, ok \in BOOLEAN : CloseTab(t, ok)

SpecFacade == Init /\ [][NextFacade]_vars

(***************************************************************************)
(* The tab.                                                                *)
(*                                                                         *)
(* hist[t].status tells how the last connect or disconnect of tab t ended: *)
(* "fresh" (none yet), "connected", "dialfail", "hookfail",                *)
(* "disconnected", "lost"; hist[t].nav tells that a Navigate succeeded.    *)
(* lastOp describes the last call: the tab's status before it (pre, nav),  *)
(* how the browser and the hooks answered (dialOk, hookFails), the dials,  *)
(* hook runs and protocol calls it made, which of these calls failed        *)
(* (failed), and what it returned.                                         *)
(***************************************************************************)
HookErr(hook, i) == <<"hook", hook, i>>

\* The loop over t.hooks; fails holds the positions whose hook returns an
\* error when it is run.  Returns the hooks run and the error.
\* A hook runner that goes on after a failing hook and reports the first error.
RECURSIVE RunHooksAll(_, _, _)
RunHooksAll(hooks, i, fails) ==
    IF i > Len(hooks) THEN [run |-> <<>>, err |-> NoErr]
    ELSE LET rest == RunHooksAll(hooks, i + 1, fails)
         IN  [run |-> <<hooks[i]>> \o rest.run,
              err |-> IF i \in fails THEN HookErr(hooks[i], i) ELSE rest.err]

RECURSIVE RunHooks(_, _, _)
RunHooks(hooks, i, fails) ==
    IF i > Len(hooks) THEN [run |-> <<>>, err |-> NoErr]
    ELSE IF i \in fails THEN [run |-> <<hooks[i]>>, err |-> HookErr(hooks[i], i)]
    ELSE LET rest == RunHooks(hooks, i + 1, fails)
         IN  [run |-> <<hooks[i]>> \o rest.run, err |-> rest.err]

\* A connect that keeps a (dead) connection handle when the dial fails.
ConnectKeepsFailedConn(t, cs, dialOk, fails) ==
    LET c == Len(cs) + 1
        h == RunHooksAll(t.hooks, 1, {})
    IN  IF ~dialOk
        THEN [tab |-> [t EXCEPT !.conn = c],
              conns |-> Append(cs, [url |-> TabEndpoint(t), open |-> FALSE]),
              dials |-> 1, run |-> <<>>, err |-> <<"dial", "error", 0>>,
              status |-> "dialfail"]
        ELSE [tab |-> [t EXCEPT !.conn = c, !.client = c],
              conns |-> Append(cs, [url |-> TabEndpoint(t), open |-> TRUE]),
              dials |-> 1, run |-> h.run,
              err |-> IF fails = {} THEN NoErr ELSE <<"hook", "", 0>>,
              status |-> IF fails = {} THEN "connected" ELSE "hookfail"]

\* tab.connect: t.conn is assigned whatever the dial returns (nil when it
\* fails); the client is made and the hooks run only after a good dial.
Connect(t, cs, dialOk, fails) ==
    IF ~dialOk
    THEN [tab |-> [t EXCEPT !.conn = 0], conns |-> cs, dials |-> 1, run |-> <<>>,
          err |-> <<"dial", "error", 0>>, status |-> "dialfail"]
    ELSE LET c == Len(cs) + 1
             h == RunHooks(t.hooks, 1, fails)
         IN  [tab |-> [t EXCEPT !.conn = c, !.client = c],
              conns |-> Append(cs, [url |-> TabEndpoint(t), open |-> TRUE]),
              dials |-> 1, run |-> h.run, err |-> h.err,
              status |-> IF h.err = NoErr THEN "connected" ELSE "hookfail"]

NoConnect(t, cs, status) ==
    [tab |-> t, conns |-> cs, dials |-> 0, run |-> <<>>, err |-> NoErr, status |-> status]

\* "if t.conn == nil { err := t.connect(timeout) ... }"
ConnectIfNoConn(t, cs, status, dialOk, fails) ==
    IF t.conn = 0 THEN Connect(t, cs, dialOk, fails) ELSE NoConnect(t, cs, status)

\* "if t.client == nil { err := t.connect(120 * time.Second) ... }"
ConnectIfNoClient(t, cs, status, dialOk, fails) ==
    IF t.client = 0 THEN Connect(t, cs, dialOk, fails) ELSE NoConnect(t, cs, status)

\* The protocol calls of an operation, in order, on a client whose
\* connection is closed or not; fails holds the positions whose call fails
\* on an open connection, ignored the positions whose error is dropped.
\* Returns the calls issued and the error of the call that ended them.
\* A sequence of calls that goes on after a failing call and returns the
\* first error.
RECURSIVE RunCallsThrough(_, _, _, _, _)
RunCallsThrough(names, i, fails, ignored, closed) ==
    IF i > Len(names) THEN [calls |-> <<>>, err |-> NoErr]
    ELSE LET rest == RunCallsThrough(names, i + 1, fails, ignored, closed)
         IN  [calls |-> <<names[i]>> \o rest.calls,
              err |-> IF (closed \/ i \in fails) /\ i \notin ignored
                      THEN <<names[i], IF closed THEN "closed" ELSE "error", i>>
                      ELSE rest.err]

RECURSIVE RunCalls(_, _, _, _, _)
RunCalls(names, i, fails, ignored, closed) ==
    IF i > Len(names) THEN [calls |-> <<>>, err |-> NoErr]
    ELSE IF (closed \/ i \in fails) /\ i \notin ignored
         THEN [calls |-> <<names[i]>>,
               err |-> <<names[i], IF closed THEN "closed" ELSE "error", i>>]
         ELSE LET rest == RunCalls(names, i + 1, fails, ignored, closed)
              IN  [calls |-> <<names[i]>> \o rest.calls, err |-> rest.err]

\* Navigate's steps: three protocol calls, the wait for the event, and the
\* five seconds of sleep that end it.
NavigateCalls ==
    <<"Page.domContentEventFired", "Page.enable", "Page.navigate", "Recv", "time.Sleep">>

GetHTMLCalls == <<"DOM.getDocument", "DOM.getOuterHTML">>

CaptureScreenshotCalls ==
    <<"DOM.getDocument", "DOM.querySelector", "DOM.getBoxModel",
      "Emulation.setDeviceMetricsOverride", "Page.captureScreenshot">>

ExecCalls == <<"Runtime.evaluate">>

\* A screenshot none of whose errors is dropped.
CaptureScreenshotIgnoredNone == {}

\* The error of Emulation.setDeviceMetricsOverride is overwritten unread.
CaptureScreenshotIgnored == {4}

\* A failing call may be the loss of the connection, which closes it.
AfterCalls(cs, c, err, lost) ==
    IF err # NoErr /\ lost /\ c # 0 THEN [cs EXCEPT ![c].open = FALSE] ELSE cs

TabIdle(t) == ~crashed /\ pc = "idle" /\ t \in 1..Len(tabs)

\* The common shape of Navigate, GetHTML, CaptureScreenshot and Exec:
\* connect if t.conn is nil, return the connect error, else issue the calls.
TabOp(op, t, names, ignored, dialOk, hookFails, callFails, lost, applied) ==
    /\ TabIdle(t)
    /\ hookFails \subseteq 1..Len(tabs[t].hooks)
    /\ callFails \subseteq 1..Len(names)
    /\ (tabs[t].conn = 0 /\ dialOk) => Len(conns) < MaxConns
    \* inputs that nothing reads are fixed, so that each case is taken once
    /\ tabs[t].conn # 0 => dialOk
    /\ (tabs[t].conn # 0 \/ ~dialOk) => hookFails = {}
    /\ (~dialOk \/ hookFails # {} \/ (tabs[t].conn # 0 /\ ~conns[tabs[t].conn].open))
          => callFails = {}
    /\ lost => callFails \ ignored # {}
    /\ LET c == ConnectIfNoConn(tabs[t], conns, hist[t].status, dialOk, hookFails)
           closed == c.tab.conn # 0 /\ ~c.conns[c.tab.conn].open
           r == IF c.err # NoErr THEN [calls |-> <<>>, err |-> c.err]
                ELSE RunCalls(names, 1, callFails, ignored, closed)
           dropped == c.err = NoErr /\ r.err # NoErr /\ lost /\ ~closed
       IN  /\ tabs' = [tabs EXCEPT ![t] = c.tab]
           /\ conns' = IF c.err = NoErr THEN AfterCalls(c.conns, c.tab.conn, r.err, lost)
                       ELSE c.conns
           /\ hist' = [hist EXCEPT ![t] =
                         [status |-> IF dropped THEN "lost" ELSE c.status,
                          nav |-> @.nav \/ (op = "Navigate" /\ r.err = NoErr)]]
           /\ lastOp' = [op |-> op, tab |-> t, pre |-> hist[t].status, nav |-> hist[t].nav,
                         dials |-> c.dials, hooksRun |-> c.run, calls |-> r.calls,
                         err |-> r.err, log |-> r.err, ok |-> r.err = NoErr,
                         client |-> 0,
                         applied |-> IF Len(r.calls) >= 4 THEN applied ELSE <<>>,
                         dialOk |-> dialOk, hookFails |-> hookFails,
                         failed |-> {i \in 1..Len(r.calls) : closed \/ i \in callFails}]
    /\ UNCHANGED <<facadeVars, frames>>
    /\ UNCHANGED crashed

\* tab.Navigate; the sleep returns nothing, so it is not among the failures.
Navigate(t, dialOk, hookFails, callFails, lost) ==
    /\ Len(NavigateCalls) \notin callFails
    /\ TabOp("Navigate", t, NavigateCalls, {}, dialOk, hookFails, callFails, lost, <<>>)

GetHTML(t, dialOk, hookFails, callFails, lost) ==
    TabOp("GetHTML", t, GetHTMLCalls, {}, dialOk, hookFails, callFails, lost, <<>>)

Exec(t, dialOk, hookFails, callFails, lost) ==
    TabOp("Exec", t, ExecCalls, {}, dialOk, hookFails, callFails, lost, <<>>)

\* ScreenshotOpts with the zero fields filled from the defaults.
DefaultWidth == 800
DefaultScale == 1

\* A default-filling that overwrites the caller's width and scale.
FillDefaultsAlways(o, bodyHeight) ==
    [Width |-> DefaultWidth,
     Height |-> IF o.Height = 0 THEN bodyHeight ELSE o.Height,
     DeviceScaleFactor |-> DefaultScale,
     Mobile |-> o.Mobile]

FillDefaults(o, bodyHeight) ==
    [Width |-> IF o.Width = 0 THEN DefaultWidth ELSE o.Width,
     Height |-> IF o.Height = 0 THEN bodyHeight ELSE o.Height,
     DeviceScaleFactor |-> IF o.DeviceScaleFactor = 0 THEN DefaultScale
                           ELSE o.DeviceScaleFactor,
     Mobile |-> o.Mobile]

CaptureScreenshot(t, o, bodyHeight, dialOk, hookFails, callFails, lost) ==
    TabOp("CaptureScreenshot", t, CaptureScreenshotCalls, CaptureScreenshotIgnored,
          dialOk, hookFails, callFails, lost,
          <<[opts |-> o, bodyHeight |-> bodyHeight, metrics |-> FillDefaults(o, bodyHeight)]>>)

\* GetClient connects when t.client is nil and returns nil when that fails.
GetClient(t, dialOk, hookFails) ==
    /\ TabIdle(t)
    /\ hookFails \subseteq 1..Len(tabs[t].hooks)
    /\ (tabs[t].client = 0 /\ dialOk) => Len(conns) < MaxConns
    /\ tabs[t].client # 0 => dialOk
    /\ (tabs[t].client # 0 \/ ~dialOk) => hookFails = {}
    /\ LET c == ConnectIfNoClient(tabs[t], conns, hist[t].status, dialOk, hookFails)
       IN  /\ tabs' = [tabs EXCEPT ![t] = c.tab]
           /\ conns' = c.conns
           /\ hist' = [hist EXCEPT ![t].status = c.status]
           /\ lastOp' = [op |-> "GetClient", tab |-> t, pre |-> hist[t].status,
                         nav |-> hist[t].nav, dials |-> c.dials, hooksRun |-> c.run,
                         calls |-> <<>>, err |-> NoErr, log |-> c.err,
                         ok |-> c.err = NoErr,
                         client |-> IF c.err = NoErr THEN c.tab.client ELSE 0,
                         applied |-> <<>>, dialOk |-> dialOk, hookFails |-> hookFails,
                         failed |-> {}]
    /\ UNCHANGED <<facadeVars, frames>>
    /\ UNCHANGED crashed

\* tab.disconnect: t.conn.Close(); t.conn itself is left as it is.
Disconnect(t) ==
    /\ TabIdle(t)
    /\ IF tabs[t].conn = 0
       THEN /\ crashed' = TRUE
            /\ UNCHANGED <<conns, hist>>
            /\ lastOp' = [NoOp EXCEPT !.op = "disconnect", !.tab = t,
                                     !.pre = hist[t].status, !.nav = hist[t].nav,
                                     !.err = <<"panic", "nil", 0>>]
       ELSE /\ UNCHANGED crashed
            /\ conns' = [conns EXCEPT ![tabs[t].conn].open = FALSE]
            /\ hist' = [hist EXCEPT ![t].status = "disconnected"]
            /\ lastOp' = [NoOp EXCEPT !.op = "disconnect", !.tab = t,
                                     !.pre = hist[t].status, !.nav = hist[t].nav,
                                     !.ok = conns[tabs[t].conn].open,
                                     !.err = IF conns[tabs[t].conn].open THEN NoErr
                                             ELSE <<"rpcc: the connection is closing",
                                                    "closed", 0>>]
    /\ UNCHANGED tabs
    /\ UNCHANGED <<facadeVars, frames>>

\* An AttachHook that puts the new hook in front of the others.
AttachHookInFront(t, hook) ==
    /\ TabIdle(t)
    /\ Len(tabs[t].hooks) < MaxHooks
    /\ tabs' = [tabs EXCEPT ![t].hooks = <<hook>> \o @]
    /\ lastOp' = [NoOp EXCEPT !.op = "AttachHook", !.tab = t, !.pre = hist[t].status,
                             !.nav = hist[t].nav, !.ok = TRUE]
    /\ UNCHANGED <<conns, hist, crashed>>
    /\ UNCHANGED <<facadeVars, frames>>

\* tab.AttachHook
AttachHook(t, hook) ==
    /\ TabIdle(t)
    /\ Len(tabs[t].hooks) < MaxHooks
    /\ tabs' = [tabs EXCEPT ![t].hooks = Append(@, hook)]
    /\ lastOp' = [NoOp EXCEPT !.op = "AttachHook", !.tab = t, !.pre = hist[t].status,
                             !.nav = hist[t].nav, !.ok = TRUE]
    /\ UNCHANGED <<conns, hist, crashed>>
    /\ UNCHANGED <<facadeVars, frames>>

(***************************************************************************)
(* A tab in use: the facade has launched on the default port and handed    *)
(* out the initial tab, bound to page target T1.                           *)
(***************************************************************************)
ScreenshotOptsValues ==
    {[Width |-> 0, Height |-> 0, DeviceScaleFactor |-> 0, Mobile |-> FALSE],
     [Width |-> 1024, Height |-> 0, DeviceScaleFactor |-> 2, Mobile |-> TRUE],
     [Width |-> 1024, Height |-> 768, DeviceScaleFactor |-> 2, Mobile |-> FALSE]}

BodyHeights == {600}

InitTab ==
    /\ opts = NewLaunchOpts
    /\ cport = ResolvePort(NewLaunchOpts)
    /\ command = [set |-> TRUE, args |-> LaunchArguments(NewLaunchOpts, cport), proc |-> 1]
    /\ procs = <<[state |-> "running", signal |-> ""]>>
    /\ conns = <<[url |-> BrowserEndpoint(cport), open |-> TRUE]>>
    /\ cconn = 1
    /\ cclient = 1
    /\ tabs = <<WrapTab("T1", cport)>>
    /\ hist = <<NewHist>>
    /\ pc = "idle"
    /\ hs = [NoHs EXCEPT !.url = HandshakeEndpoint(cport)]
    /\ ret = [op |-> "Launch", tab |-> 1, err |-> NoErr, log |-> NoErr, arg |-> "", calls |-> <<>>]
    /\ lastOp = NoOp
    /\ crashed = FALSE
    /\ frames = NoFrames

\* The sets of failing calls tried: at most two of an operation's calls.
CallFails(names) == {f \in SUBSET (1..Len(names)) : Cardinality(f) <= 2}

NextTab ==
    \/ \E t \in 1..Len(tabs), hook \in HookIds : AttachHook(t, hook)
    \/ \E t \in 1..Len(tabs) : \E dialOk \in BOOLEAN, hookFails \in SUBSET (1..Len(tabs[t].hooks)),
          callFails \in CallFails(NavigateCalls), lost \in BOOLEAN :
          Navigate(t, dialOk, hookFails, callFails, lost)
    \/ \E t \in 1..Len(tabs) : \E dialOk \in BOOLEAN, hookFails \in SUBSET (1..Len(tabs[t].hooks)),
          callFails \in CallFails(GetHTMLCalls), lost \in BOOLEAN :
          GetHTML(t, dialOk, hookFails, callFails, lost)
    \/ \E t \in 1..Len(tabs) : \E dialOk \in BOOLEAN, hookFails \in SUBSET (1..Len(tabs[t].hooks)),
          callFails \in CallFails(CaptureScreenshotCalls), lost \in BOOLEAN,
          o \in ScreenshotOptsValues, bodyHeight \in BodyHeights :
          CaptureScreenshot(t, o, bodyHeight, dialOk, hookFails, callFails, lost)
    \/ \E t \in 1..Len(tabs) : \E dialOk \in BOOLEAN, hookFails \in SUBSET (1..Len(tabs[t].hooks)),
          callFails \in CallFails(ExecCalls), lost \in BOOLEAN :
          Exec(t, dialOk, hookFails, callFails, lost)
    \/ \E t \in 1..Len(tabs) : \E dialOk \in BOOLEAN, hookFails \in SUBSET (1..Len(tabs[t].hooks)) :
          GetClient(t, dialOk, hookFails)
    \/ \E t \in 1..Len(tabs) : Disconnect(t)

SpecTab == InitTab /\ [][NextTab]_vars

(***************************************************************************)
(* Tabs handed out by a launched facade: from the same start, OpenTab and  *)
(* OpenNewTab next to a Navigate that the browser answers in full once it  *)
(* has let it connect.                                                     *)
(***************************************************************************)
NextOpen ==
    \/ \E id \in TargetIDs : OpenTab(id)
    \/ \E ok \in BOOLEAN, id \in TargetIDs : OpenNewTab(ok, id)
    \/ \E t \in 1..Len(tabs), dialOk \in BOOLEAN : Navigate(t, dialOk, {}, {}, FALSE)

SpecOpen == InitTab /\ [][NextOpen]_vars

(***************************************************************************)
(* Incognito tabs next to a tab in use: from the same start,               *)
(* OpenNewIncognitoTab and CloseTab, while the tab Launch returned has     *)
(* hooks attached, navigates (connecting when it must) and is              *)
(* disconnected.                                                           *)
(***************************************************************************)
\* The tab Launch returned.
LaunchedTab == 1

NextIncognito ==
    \/ \E ctxOk \in BOOLEAN, targetOk \in BOOLEAN, ctxID \in ContextIDs \cup {""},
          id \in TargetIDs : OpenNewIncognitoTab(ctxOk, targetOk, ctxID, id)
    \/ \E t \in 1..Len(tabs), ok \in BOOLEAN : CloseTab(t, ok)
    \/ \E hook \in HookIds : AttachHook(LaunchedTab, hook)
    \/ \E dialOk \in BOOLEAN, hookFails \in SUBSET (1..Len(tabs[LaunchedTab].hooks)) :
          Navigate(LaunchedTab, dialOk, hookFails, {}, FALSE)
    \/ Disconnect(LaunchedTab)

SpecIncognito == InitTab /\ [][NextIncognito]_vars

(***************************************************************************)
(* Tab calls made by several goroutines at once.  The tab has no lock, so  *)
(* a call is taken apart at its reads and writes of the tab's fields and   *)
(* at its blocking steps, and the steps of the goroutines interleave.      *)
(* Goroutine g1 calls Navigate and g2 calls Exec.                          *)
(***************************************************************************)
ThreadOp(th) == IF th = "g1" THEN "Navigate" ELSE "Exec"

OpCalls(op) == IF op = "Navigate" THEN NavigateCalls ELSE ExecCalls

StepIdle == ~crashed /\ pc = "idle"

\* An assignment of a connection that reaches every tab.
SetConnAll(ts, t, c) == [u \in DOMAIN ts |-> [ts[u] EXCEPT !.conn = c]]

\* "t.conn, err = rpcc.DialContext(...)": the assignment to t.conn.
SetConn(ts, t, c) == [ts EXCEPT ![t].conn = c]

\* The call begins: its ctx is made from the timeout, and t.conn is read.
Begin(th, t) ==
    /\ StepIdle
    /\ t \in 1..Len(tabs)
    /\ frames[th].pc \in {"idle", "done"}
    /\ frames' = [frames EXCEPT ![th] =
                     [NoFrame EXCEPT !.op = ThreadOp(th), !.tab = t, !.i = 1,
                                     !.pc = IF tabs[t].conn = 0 THEN "dial" ELSE "calls"]]
    /\ UNCHANGED <<facadeVars, tabVars, crashed>>

\* tab.connect makes a ctx of its own from the same timeout and dials under
\* it: whether the dial succeeds does not depend on the call's ctx, whose
\* deadline is the earlier one.  t.conn is assigned in both cases.
Dial(th, ok) ==
    LET f == frames[th]
        t == f.tab
        new == Len(conns) + 1
    IN  /\ StepIdle
        /\ f.pc = "dial"
        /\ ok => Len(conns) < MaxConns
        /\ IF ok
           THEN /\ conns' = Append(conns, [url |-> TabEndpoint(tabs[t]), open |-> TRUE])
                /\ tabs' = SetConn(tabs, t, new)
                /\ frames' = [frames EXCEPT ![th].pc = "client"]
           ELSE /\ conns' = conns
                /\ tabs' = SetConn(tabs, t, 0)
                /\ frames' = [frames EXCEPT ![th].pc = "done",
                                            ![th].err = <<"dial", "error", 0>>]
        /\ UNCHANGED <<facadeVars, lastOp, hist, crashed>>

\* "t.client = cdp.NewClient(t.conn)": t.conn is read again.
NewClient(th) ==
    LET f == frames[th]
        t == f.tab
    IN  /\ StepIdle
        /\ f.pc = "client"
        /\ tabs' = [tabs EXCEPT ![t].client = tabs[t].conn]
        /\ frames' = [frames EXCEPT ![th].i = 1,
                                    ![th].pc = IF tabs[t].hooks = <<>> THEN "calls"
                                               ELSE "hooks"]
        /\ UNCHANGED <<facadeVars, conns, lastOp, hist, crashed>>

\* One round of the loop over t.hooks: the hook is called with the client
\* and no ctx, so that no deadline of the call reaches it.
Hook(th, ok) ==
    LET f == frames[th]
        t == f.tab
    IN  /\ StepIdle
        /\ f.pc = "hooks"
        /\ f.i \in 1..Len(tabs[t].hooks)
        /\ frames' = [frames EXCEPT ![th] =
                         IF ~ok
                         THEN [f EXCEPT !.pc = "done",
                                        !.err = HookErr(tabs[t].hooks[f.i], f.i)]
                         ELSE IF f.i = Len(tabs[t].hooks)
                              THEN [f EXCEPT !.pc = "calls", !.i = 1]
                              ELSE [f EXCEPT !.i = f.i + 1]]
        /\ UNCHANGED <<facadeVars, tabVars, crashed>>

\* One step of the operation on t.client: a protocol call or an event wait
\* under the call's ctx, which fails once the deadline has passed or on a
\* closed connection, or time.Sleep, which takes no ctx and always runs to
\* its end.  A nil t.client panics.
Call(th, ok) ==
    LET f == frames[th]
        t == f.tab
        c == tabs[t].client
        names == OpCalls(f.op)
        name == names[f.i]
    IN  /\ StepIdle
        /\ f.pc = "calls"
        /\ IF c = 0
           THEN /\ ok
                /\ crashed' = TRUE
                /\ UNCHANGED frames
           ELSE /\ name = "time.Sleep" => ok
                /\ (name # "time.Sleep" /\ ok) => (~f.expired /\ conns[c].open)
                /\ frames' = [frames EXCEPT ![th] =
                                 IF ~ok
                                 THEN [f EXCEPT !.pc = "done",
                                                !.err = <<name,
                                                          IF f.expired THEN "deadline"
                                                          ELSE IF conns[c].open THEN "error"
                                                          ELSE "closed",
                                                          f.i>>]
                                 ELSE IF f.i = Len(names)
                                      THEN [f EXCEPT !.pc = "done", !.ok = TRUE]
                                      ELSE [f EXCEPT !.i = f.i + 1]]
                /\ UNCHANGED crashed
        /\ UNCHANGED <<facadeVars, tabVars>>

\* The deadline of the call's ctx passes while the call is under way.
Expire(th) ==
    /\ StepIdle
    /\ frames[th].pc \in {"dial", "client", "hooks", "calls"}
    /\ ~frames[th].expired
    /\ frames' = [frames EXCEPT ![th].expired = TRUE]
    /\ UNCHANGED <<facadeVars, tabVars, crashed>>

\* A launched facade with two tabs; hook "A" is attached to the first.
InitSteps ==
    /\ opts = NewLaunchOpts
    /\ cport = ResolvePort(NewLaunchOpts)
    /\ command = [set |-> TRUE, args |-> LaunchArguments(NewLaunchOpts, cport), proc |-> 1]
    /\ procs = <<[state |-> "running", signal |-> ""]>>
    /\ conns = <<[url |-> BrowserEndpoint(cport), open |-> TRUE]>>
    /\ cconn = 1
    /\ cclient = 1
    /\ tabs = <<[WrapTab("T1", cport) EXCEPT !.hooks = <<"A">>], WrapTab("T2", cport)>>
    /\ hist = <<NewHist, NewHist>>
    /\ pc = "idle"
    /\ hs = [NoHs EXCEPT !.url = HandshakeEndpoint(cport)]
    /\ ret = [op |-> "OpenTab", tab |-> 2, err |-> NoErr, log |-> NoErr, arg |-> "T2", calls |-> <<>>]
    /\ lastOp = NoOp
    /\ crashed = FALSE
    /\ frames = NoFrames

\* The goroutines call on whichever tab they like.
NextSteps ==
    \/ \E th \in Threads, t \in 1..Len(tabs) : Begin(th, t)
    \/ \E th \in Threads, ok \in BOOLEAN : Dial(th, ok)
    \/ \E th \in Threads : NewClient(th)
    \/ \E th \in Threads, ok \in BOOLEAN : Hook(th, ok)
    \/ \E th \in Threads, ok \in BOOLEAN : Call(th, ok)
    \/ \E th \in Threads : Expire(th)

SpecSteps == InitSteps /\ [][NextSteps]_vars

\* Each goroutine keeps to a tab of its own.
ThreadTab(th) == IF th = "g1" THEN 1 ELSE 2

NextApart ==
    \/ \E th \in Threads : Begin(th, ThreadTab(th))
    \/ \E th \in Threads, ok \in BOOLEAN : Dial(th, ok)
    \/ \E th \in Threads : NewClient(th)
    \/ \E th \in Threads, ok \in BOOLEAN : Hook(th, ok)
    \/ \E th \in Threads, ok \in BOOLEAN : Call(th, ok)
    \/ \E th \in Threads : Expire(th)

SpecApart == InitSteps /\ [][NextApart]_vars

(***************************************************************************)
(* Properties of the handshake and the process (checked under Spec).       *)
(***************************************************************************)
\* The ports named by the --remote-debugging-port flags of an argument list.
PortFlags(args) ==
    {args[i][2] : i \in {j \in 1..Len(args) :
                            Len(args[j]) = 2 /\ args[j][1] = "--remote-debugging-port="}}

ConnectReturned == pc = "connected"

EndpointFailure(err) == err # NoErr /\ err[1] \in {"version", "dial", "targets"} /\ err[2] = "error"

\* C1 (as amended): a handshake that is not cut short by its deadline goes
\* on after every failed attempt but the 5th and stops at the first
\* successful one, so that N < 5 failures followed by a success make
\* exactly N + 1 attempts; every sleep between two attempts is at most 1 s
\* (the sleeps are jittered and need not be non-decreasing).
C1_RetryUntilSuccess ==
    /\ hs.delay <= MaxDelay
    /\ pc = "attempt" => (hs.attempts = hs.tries /\ hs.tries < MaxTries /\ ~hs.ctxDone)
    /\ (ConnectReturned /\ hs.err = NoErr) =>
          (hs.tries = hs.attempts + 1 /\ hs.attempts < MaxTries)
    /\ (ConnectReturned /\ hs.err # NoErr /\ ~hs.ctxDone) => hs.attempts = MaxTries

\* C1 witness: the 5th attempt succeeds after four failures, the last sleep
\* having been the full second.
C1_Witness ==
    ConnectReturned /\ hs.err = NoErr /\ hs.tries = MaxTries /\ hs.delay = MaxDelay

\* C1 as stated: the delays between consecutive attempts are non-decreasing.
C1_NonDecreasingDelays ==
    [][(pc = "attempt" /\ pc' = "attempt" /\ hs.tries >= 1 /\ hs'.tries = hs.tries + 1)
          => hs'.delay >= hs.delay]_vars

\* C2: when every attempt fails at the endpoint (and the deadline does not
\* cut the loop short), connect makes exactly 5 attempts and returns the
\* error of the 5th; Launch then returns no Tab and that error.
C2_Exhaustion ==
    /\ (ConnectReturned /\ hs.err # NoErr /\ ~hs.ctxDone) =>
          (hs.tries = MaxTries /\ EndpointFailure(hs.err) /\ hs.err[3] = MaxTries)
    /\ (pc = "idle" /\ ret.op = "Launch" /\ EndpointFailure(ret.err)) =>
          (ret.tab = 0 /\ ret.err[3] = MaxTries)

C2_Witness ==
    pc = "idle" /\ ret.op = "Launch" /\ ret.tab = 0 /\ ret.err = <<"dial", "error", MaxTries>>

\* C7: with no explicit port in the launch options the resolved port is
\* 9222, and the --remote-debugging-port flag and the handshake endpoint
\* both carry it.
C7_DefaultPort ==
    (command.set /\ hs.launchPort = <<>>) =>
        /\ IntValue(cport) = DefaultPort
        /\ PortFlags(command.args) = {DefaultPort}
        /\ hs.url # NoUrl => hs.url.port = DefaultPort

C7_Witness ==
    /\ pc = "idle" /\ ret.op = "Launch" /\ ret.err = NoErr
    /\ command.set /\ hs.launchPort = <<>> /\ hs.url.port = DefaultPort

\* C9 as stated: Terminate on a facade whose process never started (Launch
\* never called, or the start failed) returns no error and does not crash.
C9_TerminateBeforeLaunch ==
    (ret.op = "Terminate" /\ (~command.set \/ command.proc = 0)) =>
        (ret.err = NoErr /\ ~crashed)

\* C10 as stated: once a Terminate has killed the started process, every
\* Terminate (whether or not Wait came in between) returns no error.
C10_TerminateIdempotent ==
    (ret.op = "Terminate" /\ command.set /\ command.proc # 0
        /\ procs[command.proc].signal = "killed") => ret.err = NoErr

StartErr == <<"start", "error", 0>>

\* C11: when the process fails to start, Launch returns at once with the
\* start error and no Tab, no handshake attempt is made (no endpoint is
\* contacted, no connection dialled), no process is recorded, and a facade
\* that never started a process has no top-level connection and no client.
C11_StartFailure ==
    (ret.op = "Launch" /\ ret.err # NoErr /\ ret.err[1] = "start") =>
        /\ pc = "idle"
        /\ ret.err = StartErr
        /\ ret.tab = 0
        /\ hs.tries = 0 /\ hs.attempts = 0 /\ hs.url = NoUrl
        /\ command.set /\ command.proc = 0
        /\ Len(procs) = 0 => (cconn = 0 /\ cclient = 0 /\ conns = <<>> /\ tabs = <<>>)

C11_Witness ==
    /\ pc = "idle" /\ ret.op = "Launch" /\ ret.err = StartErr /\ ret.tab = 0
    /\ Len(procs) = 0 /\ cconn = 0 /\ cclient = 0 /\ hs.tries = 0

\* C19 as stated: whenever no connect is running, the facade's session and
\* every tab's session have connection and client both set or both unset,
\* and both unset after a connect that returned an error (a Launch whose
\* handshake failed, a tab connect whose dial or hook failed).
C19_SessionAllOrNothing ==
    /\ pc = "idle" => ((cconn = 0) <=> (cclient = 0))
    /\ (pc = "idle" /\ ret.op = "Launch" /\ ret.err # NoErr) =>
          (cconn = 0 /\ cclient = 0)
    /\ \A t \in 1..Len(tabs) :
          /\ (tabs[t].conn = 0) <=> (tabs[t].client = 0)
          /\ hist[t].status \in {"dialfail", "hookfail"} =>
                (tabs[t].conn = 0 /\ tabs[t].client = 0)

(***************************************************************************)
(* Properties of the argument list (checked under SpecArgs).               *)
(***************************************************************************)
\* The command's arguments are the default flags for the resolved port,
\* then the caller's arguments in their order, then --headless if asked.
ArgsBuilt ==
    command.set =>
        LET args == command.args
            n == Len(DefaultArguments(cport))
            k == Len(opts.arguments)
        IN  /\ cport = (IF opts.port = <<>> THEN <<DefaultPort>> ELSE opts.port)
            /\ Len(args) = n + k + (IF opts.headless THEN 1 ELSE 0)
            /\ SubSeq(args, 1, n) = DefaultArguments(cport)
            /\ PortFlags(args) = {IntValue(cport)}
            /\ \A j \in 1..k : args[n + j] = <<opts.arguments[j]>>
            /\ opts.headless => args[Len(args)] = <<"--headless">>
            /\ ~opts.headless => \A i \in 1..Len(args) : args[i] # <<"--headless">>

\* C20: after every step the argument list of the command is the default
\* flags (with --remote-debugging-port=<resolved port>), followed by the
\* caller's extra arguments in their order, followed by --headless exactly
\* when the headless option is true; and no step changes the caller's
\* options value.
C20_ArgumentList ==
    [][opts' = opts /\ ArgsBuilt']_vars

\* C20 witness: port 9333, two different extra arguments, headless off.
C20_Witness ==
    /\ command.set /\ ArgsBuilt
    /\ opts.port = <<9333>> /\ ~opts.headless
    /\ opts.arguments = <<"--mute-audio", "--lang=en">>
    /\ Len(command.args) = Len(DefaultArguments(cport)) + 2
    /\ command.args[Len(command.args)] = <<"--lang=en">>

(***************************************************************************)
(* Properties of repeated launches (checked under SpecRelaunch).           *)
(***************************************************************************)
\* C12 as stated: a facade starts at most one process over its life, and
\* once a Terminate has killed its process no later call starts another.
C12_OneProcessPerFacade ==
    [][/\ Len(procs') <= 1
       /\ (\E i \in 1..Len(procs) : procs[i].signal = "killed") =>
              Len(procs') = Len(procs)]_vars

(***************************************************************************)
(* Properties of the whole facade (checked under SpecFacade).              *)
(***************************************************************************)
TabCreators == {"Launch", "OpenTab", "OpenNewTab", "OpenNewIncognitoTab"}

\* C8 as stated: with an explicit port P in the launch options, the
\* --remote-debugging-port flag, the handshake endpoint and the websocket
\* endpoint of every Tab the facade hands out all use P.
C8_ExplicitPort ==
    (command.set /\ hs.launchPort # <<>>) =>
        LET P == IntValue(hs.launchPort)
        IN  /\ PortFlags(command.args) = {P}
            /\ hs.url # NoUrl => hs.url.port = P
            /\ (pc = "idle" /\ ret.op \in TabCreators /\ ret.tab # 0) =>
                  TabEndpoint(tabs[ret.tab]).port = P

(***************************************************************************)
(* Properties of a tab (checked under SpecTab).                            *)
(***************************************************************************)
ConnectingOps == {"Navigate", "GetHTML", "CaptureScreenshot", "Exec", "GetClient"}

ProtocolOps == {"Navigate", "GetHTML", "CaptureScreenshot", "Exec"}

SetMin(S) == CHOOSE x \in S : \A y \in S : x <= y

DialErr == <<"dial", "error", 0>>

\* C3: a connect runs the hooks in the order they were attached, each once
\* and only after a successful dial; it stops at the first hook that
\* fails, runs no later hook, and the operation fails with that hook's
\* error.
C3_HookOrdering ==
    lastOp.op \in ConnectingOps =>
        LET hooks == tabs[lastOp.tab].hooks
        IN  /\ (lastOp.dials = 0 \/ ~lastOp.dialOk) => lastOp.hooksRun = <<>>
            /\ (lastOp.dials = 1 /\ lastOp.dialOk /\ lastOp.hookFails = {}) =>
                  lastOp.hooksRun = hooks
            /\ (lastOp.dials = 1 /\ lastOp.dialOk /\ lastOp.hookFails # {}) =>
                  LET k == SetMin(lastOp.hookFails)
                  IN  /\ lastOp.hooksRun = SubSeq(hooks, 1, k)
                      /\ lastOp.log = HookErr(hooks[k], k)
                      /\ lastOp.op \in ProtocolOps => lastOp.err = HookErr(hooks[k], k)
                      /\ ~lastOp.ok
                      /\ lastOp.client = 0
                      /\ lastOp.calls = <<>>

\* C3 witness: hooks [A, B], A fails: only A ran and Navigate returned A's error.
C3_Witness ==
    /\ lastOp.op = "Navigate"
    /\ tabs[lastOp.tab].hooks = <<"A", "B">>
    /\ lastOp.hookFails = {1, 2}
    /\ lastOp.hooksRun = <<"A">>
    /\ lastOp.err = HookErr("A", 1)

\* C4 as stated: GetHTML on a tab that was disconnected after a successful
\* Navigate dials a new connection and does not fail on the closed one.
C4_ReconnectAfterDisconnect ==
    (lastOp.op = "GetHTML" /\ lastOp.pre = "disconnected" /\ lastOp.nav) =>
        /\ lastOp.dials = 1
        /\ ~(lastOp.err # NoErr /\ lastOp.err[2] = "closed")

\* C5 as stated: the operation that follows a connect whose hook failed
\* performs a fresh connect (a new dial, the hooks from the first) before
\* it issues any protocol call.
C5_FreshConnectAfterHookFailure ==
    (lastOp.op \in ProtocolOps /\ lastOp.pre = "hookfail") =>
        /\ lastOp.dials = 1
        /\ lastOp.calls # <<>> => lastOp.hooksRun = tabs[lastOp.tab].hooks

\* C6: when the dial of a tab's connect fails, the operation has dialled
\* once, returns the dial error and a zero result, issues no protocol call
\* and runs no hook, the tab stays unconnected, and the next operation on
\* it dials again.
C6_DialFailure ==
    lastOp.op \in ConnectingOps =>
        /\ ~lastOp.dialOk =>
              /\ lastOp.dials = 1
              /\ lastOp.log = DialErr
              /\ lastOp.op \in ProtocolOps => lastOp.err = DialErr
              /\ ~lastOp.ok
              /\ lastOp.client = 0
              /\ lastOp.calls = <<>>
              /\ lastOp.hooksRun = <<>>
              /\ tabs[lastOp.tab].conn = 0
              /\ tabs[lastOp.tab].client = 0
        /\ lastOp.pre = "dialfail" => lastOp.dials = 1

\* C6 witness: Exec fails at the dial on a tab whose last connect had
\* already failed at the dial.
C6_Witness ==
    /\ lastOp.op = "Exec" /\ ~lastOp.dialOk /\ lastOp.pre = "dialfail"
    /\ lastOp.err = DialErr /\ tabs[lastOp.tab].hooks # <<>>

\* C13: no operation on a tab (Navigate, GetHTML, CaptureScreenshot, Exec,
\* GetClient, AttachHook, disconnect and the connects they make, failed or
\* not) changes what GetTargetID returns for any tab: it stays the
\* identifier the tab was created with.
C13_TargetIDFixed ==
    [][\A t \in 1..Len(tabs) : GetTargetID(tabs'[t]) = GetTargetID(tabs[t])]_vars

\* C13 witness: a tab that connected, was disconnected and then failed a
\* GetHTML still reports the identifier it was created with.
C13_Witness ==
    /\ lastOp.op = "GetHTML" /\ lastOp.pre = "disconnected" /\ lastOp.err # NoErr
    /\ tabs[lastOp.tab].hooks # <<>>
    /\ GetTargetID(tabs[lastOp.tab]) = "T1"

\* C14: AttachHook changes nothing but the hook list of its tab, to which it
\* appends the hook (earlier hooks keep their places); it runs no hook,
\* dials nothing, issues no call and leaves every connection and client as
\* it was.  No operation runs a hook unless it connects, so a hook attached
\* to a connected tab is not run before the next connect.
C14_AttachHookAppends ==
    [][/\ lastOp'.op = "AttachHook" =>
              /\ \E h \in HookIds :
                    tabs' = [tabs EXCEPT ![lastOp'.tab].hooks = Append(@, h)]
              /\ conns' = conns
              /\ hist' = hist
              /\ lastOp'.hooksRun = <<>>
              /\ lastOp'.dials = 0
              /\ lastOp'.calls = <<>>
       /\ lastOp'.dials = 0 => lastOp'.hooksRun = <<>>]_vars

\* C14 witness: hook B has been attached after hook A to a tab whose
\* connection is live.
C14_Witness ==
    /\ lastOp.op = "AttachHook"
    /\ tabs[lastOp.tab].hooks = <<"A", "B">>
    /\ hist[lastOp.tab].status = "connected"
    /\ tabs[lastOp.tab].conn # 0 /\ conns[tabs[lastOp.tab].conn].open

\* C15: the device metrics CaptureScreenshot applies are, field by field,
\* the caller's value when it is not zero and else the default (width 800,
\* height the measured body height, scale 1); fully given options are
\* applied as they are, and the mobile flag is always the caller's.
C15_ScreenshotDefaults ==
    (lastOp.op = "CaptureScreenshot" /\ lastOp.applied # <<>>) =>
        LET o == lastOp.applied[1].opts
            h == lastOp.applied[1].bodyHeight
            m == lastOp.applied[1].metrics
        IN  /\ m.Width = (IF o.Width # 0 THEN o.Width ELSE DefaultWidth)
            /\ m.Height = (IF o.Height # 0 THEN o.Height ELSE h)
            /\ m.DeviceScaleFactor =
                  (IF o.DeviceScaleFactor # 0 THEN o.DeviceScaleFactor ELSE DefaultScale)
            /\ m.Mobile = o.Mobile
            /\ (o.Width # 0 /\ o.Height # 0 /\ o.DeviceScaleFactor # 0) => m = o
            /\ (o.Width = 0 /\ o.Height = 0 /\ o.DeviceScaleFactor = 0) =>
                  (m.Width = 800 /\ m.Height = h /\ m.DeviceScaleFactor = 1)

\* C15 witness: width and scale given, height left zero, mobile set: the
\* screenshot is taken with 1024 x body height, scale 2, mobile.
C15_Witness ==
    /\ lastOp.op = "CaptureScreenshot" /\ lastOp.ok /\ lastOp.applied # <<>>
    /\ lastOp.applied[1].opts =
          [Width |-> 1024, Height |-> 0, DeviceScaleFactor |-> 2, Mobile |-> TRUE]
    /\ lastOp.applied[1].metrics =
          [Width |-> 1024, Height |-> 600, DeviceScaleFactor |-> 2, Mobile |-> TRUE]

(***************************************************************************)
(* Properties of the tab constructors (checked under SpecOpen and          *)
(* SpecIncognito).                                                         *)
(***************************************************************************)
\* C16: an OpenTab step issues no protocol call and dials nothing, changes
\* no field of the facade and no other tab, and adds one tab that has no
\* connection, no client and no hooks and carries the given identifier and
\* the facade's port; OpenTab itself reports no error, and the first
\* operation on a tab never connected dials: a stale identifier shows as
\* that operation's dial error.
C16_OpenTabPure ==
    [][/\ (ret' # ret /\ ret'.op = "OpenTab") =>
              /\ ret'.err = NoErr /\ ret'.calls = <<>>
              /\ tabs' = Append(tabs, [id |-> ret'.arg, port |-> cport, conn |-> 0,
                                       client |-> 0, hooks |-> <<>>])
              /\ ret'.tab = Len(tabs')
              /\ conns' = conns
              /\ lastOp' = lastOp
              /\ UNCHANGED <<opts, command, cport, cconn, cclient, procs, pc, hs, crashed>>
       /\ (lastOp' # lastOp /\ lastOp'.op = "Navigate" /\ lastOp'.pre = "fresh") =>
              /\ lastOp'.dials = 1
              /\ ~lastOp'.dialOk =>
                    (lastOp'.err = DialErr /\ lastOp'.calls = <<>> /\ ~lastOp'.ok)]_vars

\* C16 witness: OpenTab("T2") returned a tab whose first Navigate failed at
\* the dial.
C16_Witness ==
    /\ ret.op = "OpenTab" /\ ret.arg = "T2" /\ ret.err = NoErr
    /\ GetTargetID(tabs[ret.tab]) = "T2" /\ tabs[ret.tab].port = cport
    /\ lastOp.op = "Navigate" /\ lastOp.tab = ret.tab /\ lastOp.pre = "fresh"
    /\ ~lastOp.dialOk /\ lastOp.err = DialErr

\* C17: OpenNewIncognitoTab asks the top-level client first for a browser
\* context and only then for a target, which it binds to the context just
\* answered; each call is made at most once; a failing context creation
\* ends the operation before any target is asked for; the error returned
\* is that of the call that failed, and then no Tab is returned.
C17_IncognitoOrder ==
    (ret.op = "OpenNewIncognitoTab" /\ cclient # 0) =>
        LET calls == ret.calls
        IN  /\ Len(calls) \in {1, 2}
            /\ calls[1][1] = "Target.createBrowserContext"
            /\ Len(calls) = 2 =>
                  /\ calls[1][3] \in ContextIDs
                  /\ calls[2] = <<"Target.createTarget", calls[1][3]>>
            /\ ret.err = NoErr => (Len(calls) = 2 /\ ret.tab = Len(tabs))
            /\ ret.err # NoErr =>
                  /\ ret.tab = 0
                  /\ ret.err[1] = calls[Len(calls)][1]
                  /\ ret.err[1] = "Target.createBrowserContext" => Len(calls) = 1

\* C17 witness: the context was created as CTX2 and the target creation,
\* bound to CTX2, failed: no Tab, the target creation's error.
C17_Witness ==
    /\ ret.op = "OpenNewIncognitoTab" /\ ret.tab = 0
    /\ ret.err = <<"Target.createTarget", "error", 0>>
    /\ ret.calls = << <<"Target.createBrowserContext", "", "CTX2">>,
                      <<"Target.createTarget", "CTX2">> >>

\* C18: a step of OpenNewIncognitoTab or of CloseTab leaves every tab that
\* existed before it (for CloseTab: every tab but the one closed) with the
\* same connection, client, hook list, identifier and port, its connection
\* as open or closed as it was and its connect status as it was.
C18_OtherTabsUntouched ==
    [][(ret' # ret /\ ret'.op \in {"OpenNewIncognitoTab", "CloseTab"}) =>
          \A t \in 1..Len(tabs) :
              (ret'.op = "CloseTab" => t # ret'.tab) =>
                  /\ tabs'[t] = tabs[t]
                  /\ hist'[t] = hist[t]
                  /\ tabs[t].conn # 0 => conns'[tabs[t].conn] = conns[tabs[t].conn]]_vars

\* C18 witness: an incognito tab was opened as the second tab and closed
\* again while the first tab is connected with two hooks attached.
C18_Witness ==
    /\ ret.op = "CloseTab" /\ ret.tab = 2 /\ ret.err = NoErr
    /\ hist[1].status = "connected" /\ tabs[1].hooks = <<"A", "B">>
    /\ tabs[1].conn # 0 /\ conns[tabs[1].conn].open
    /\ hist[2].status = "fresh"

(***************************************************************************)
(* Properties of a tab whose connection was lost (checked under SpecTab).  *)
(***************************************************************************)
\* C21 as stated: a tab whose protocol call failed because the connection
\* was lost is unconnected afterwards, and the next operation on it dials
\* anew and re-runs the hooks instead of calling on the dead connection.
C21_ReconnectAfterLoss ==
    /\ \A t \in 1..Len(tabs) :
          hist[t].status = "lost" => (tabs[t].conn = 0 /\ tabs[t].client = 0)
    /\ (lastOp.op \in ProtocolOps /\ lastOp.pre = "lost") =>
          /\ lastOp.dials = 1
          /\ (lastOp.err = NoErr \/ lastOp.err[2] # "closed")


(* Properties of Navigate's steps (checked under SpecTab).                 *)
\* C22: once connected, Navigate subscribes to the content-loaded event,
\* enables page events, navigates and waits for the event, in this order;
\* a step that fails ends the call with (false, that step's error) and no
\* later step is taken; true is returned only after the event was received
\* and the settle delay has elapsed.
C22_NavigateOrder ==
    LET order == <<"Page.domContentEventFired", "Page.enable", "Page.navigate",
                   "Recv", "time.Sleep">>
        n == Len(lastOp.calls)
    IN  (lastOp.op = "Navigate" /\ lastOp.calls # <<>>) =>
           /\ n <= Len(order)
           /\ lastOp.calls = SubSeq(order, 1, n)
           /\ lastOp.failed \subseteq {n}
           /\ lastOp.failed = {n} =>
                 (~lastOp.ok /\ lastOp.err # NoErr /\ lastOp.err[1] = order[n])
           /\ lastOp.failed = {} =>
                 (lastOp.ok /\ lastOp.err = NoErr /\ lastOp.calls = order)
           /\ lastOp.ok => (lastOp.calls[4] = "Recv" /\ lastOp.calls[n] = "time.Sleep")

\* A Navigate whose navigate call failed after two good steps.
C22_Witness ==
    /\ lastOp.op = "Navigate"
    /\ lastOp.calls = <<"Page.domContentEventFired", "Page.enable", "Page.navigate">>
    /\ lastOp.failed = {3}
    /\ ~lastOp.ok

(* Properties of CaptureScreenshot's errors (checked under SpecTab).       *)
\* C30: once connected, a failing device-metrics override does not end
\* CaptureScreenshot: the capture call is still made, and the call returns
\* an error exactly when the document, body-query, box-model or capture
\* call failed, that call's error.
C30_OverrideNotFatal ==
    LET n == Len(lastOp.calls)
        fatal == lastOp.failed \ {4}
    IN  (lastOp.op = "CaptureScreenshot" /\ lastOp.calls # <<>>) =>
           /\ 4 \in lastOp.failed =>
                 (n = 5 /\ lastOp.calls[5] = "Page.captureScreenshot")
           /\ fatal = {} <=> (lastOp.ok /\ lastOp.err = NoErr)
           /\ fatal # {} =>
                 /\ fatal = {n}
                 /\ lastOp.err[3] = n
                 /\ lastOp.err[1] = lastOp.calls[n]
                 /\ lastOp.err[1] \in {"DOM.getDocument", "DOM.querySelector",
                                       "DOM.getBoxModel", "Page.captureScreenshot"}

\* A screenshot returned although the override had failed.
C30_Witness ==
    /\ lastOp.op = "CaptureScreenshot"
    /\ lastOp.failed = {4}
    /\ lastOp.ok
    /\ Len(lastOp.calls) = 5

(* Properties of the handshake's deadline (checked under Spec).            *)
\* C27: the handshake retry loop is bounded by its deadline: no attempt
\* starts once the deadline has expired, and when it expires before an
\* attempt succeeded connect stops, however few attempts were made, and
\* Launch returns no tab and an error.
C27_DeadlineBoundsRetry ==
    [][/\ pc' = "attempt" => ~hs'.ctxDone
       /\ hs'.ctxDone => (pc' = "connected" /\ hs'.err # NoErr /\ hs'.tries <= MaxTries)
       /\ (pc = "connected" /\ hs.ctxDone /\ pc' = "idle") =>
             (ret'.op = "Launch" /\ ret'.tab = 0 /\ ret'.err = hs.err /\ tabs' = tabs)]_vars

\* connect stopped by the deadline after two of its five attempts.
C27_Witness ==
    /\ pc = "connected"
    /\ hs.ctxDone
    /\ hs.tries = 2
    /\ hs.err # NoErr

(* Properties of the initial tab (checked under Spec).                     *)
\* C28: the tab a successful handshake hands out is bound to the first
\* target of type "page" in the target list of the successful attempt,
\* whatever precedes or follows it in the list, and carries the facade's
\* port.
C28_FirstPageTarget ==
    [][(pc = "connected" /\ pc' = "idle" /\ hs.err = NoErr) =>
          LET pages == {i \in 1..Len(hs.targets) : hs.targets[i].type = "page"}
              n == Len(tabs) + 1
          IN  pages # {} =>
                 /\ ret'.op = "Launch" /\ ret'.err = NoErr /\ ret'.tab = n
                 /\ Len(tabs') = n
                 /\ tabs'[n].id = hs.targets[SetMin(pages)].id
                 /\ tabs'[n].port = cport
                 /\ IntValue(tabs'[n].port) = IntValue(ResolvePort(opts))
                 /\ tabs'[n].conn = 0]_vars

\* A handshake that succeeded on a list of two page targets.
C28_Witness ==
    /\ pc = "connected"
    /\ hs.err = NoErr
    /\ hs.targets = <<[type |-> "page", id |-> "T2"], [type |-> "page", id |-> "T1"]>>
    /\ hs.tab.id = "T2"

(* Properties of connections on failure.                                   *)
\* The connections to the browser endpoint that are open.
OpenBrowserConns ==
    {i \in 1..Len(conns) : conns[i].open /\ conns[i].url = BrowserEndpoint(cport)}

\* C29 as stated, for the facade: a connection opened by a handshake
\* attempt that then fails is closed before the next attempt, so that the
\* facade never has more than one connection open, and has none once
\* connect has failed.
C29_ReleasedOnFailure ==
    /\ Cardinality(OpenBrowserConns) <= 1
    /\ (pc = "connected" /\ hs.err # NoErr) => OpenBrowserConns = {}

(* Properties of calls made at the same time (checked under SpecApart and *)
(* SpecSteps).                                                             *)
\* The connections dialled to the endpoint of tab t.
TabConns(t) == {i \in 1..Len(conns) : conns[i].url = TabEndpoint(tabs[t])}

\* What holds of a tab whose calls run one after the other: it has dialled
\* at most one connection, its client is the client of that connection, and
\* a call that has reached its protocol calls has a client.
AsIfAlone(t) ==
    /\ Cardinality(TabConns(t)) <= 1
    /\ tabs[t].conn # 0 => TabConns(t) = {tabs[t].conn}
    /\ tabs[t].client # 0 => tabs[t].client = tabs[t].conn
    /\ \A th \in Threads :
          (frames[th].tab = t /\ frames[th].pc = "calls") => tabs[t].client # 0

\* C23: calls on distinct tabs are independent under every interleaving:
\* a step of a call on one tab leaves the other tab, its connection and the
\* other goroutine's call as they were, nothing panics, and each tab is as
\* it would be had its calls run alone.
C23_DistinctTabsIndependent ==
    [][/\ \A th \in Threads :
             frames'[th] # frames[th] =>
                /\ \A u \in 1..Len(tabs) : u # frames'[th].tab => tabs'[u] = tabs[u]
                /\ \A i \in 1..Len(conns) : conns'[i] = conns[i]
                /\ \A o \in Threads : o # th => frames'[o] = frames[o]
       /\ ~crashed'
       /\ \A t \in 1..Len(tabs) : AsIfAlone(t)']_vars

\* Both goroutines are inside their protocol calls, each tab on a
\* connection of its own.
C23_Witness ==
    /\ frames["g1"].pc = "calls" /\ frames["g1"].tab = 1
    /\ frames["g2"].pc = "calls" /\ frames["g2"].tab = 2
    /\ tabs[1].conn # 0 /\ tabs[2].conn # 0
    /\ tabs[1].conn # tabs[2].conn

\* C24 as stated: calls made on one tab at the same time use one and the
\* same connection: the tab dials at most one connection, and no open
\* connection of the tab is overwritten in t.conn without being closed.
C24_OneConnectionPerTab ==
    \A t \in 1..Len(tabs) :
       /\ Cardinality(TabConns(t)) <= 1
       /\ \A i \in TabConns(t) : conns[i].open => tabs[t].conn = i

\* C25 as stated: every protocol call of a tab call, the dial and the hooks
\* of its connect included, is bound to the deadline set at the start of
\* the call: none of them succeeds once that deadline has passed.
C25_SingleDeadline ==
    [][\A th \in Threads :
          (/\ frames[th].expired
           /\ frames'[th] # frames[th]
           /\ \/ frames[th].pc \in {"dial", "hooks"}
              \/ (frames[th].pc = "calls"
                   /\ OpCalls(frames[th].op)[frames[th].i] # "time.Sleep"))
          => frames'[th].err # NoErr]_vars

\* C26 as stated: no blocking step is uncancellable: a call whose deadline
\* passes while it waits (for an event, a reply, or the settle delay) stops
\* waiting and returns an error instead of completing the wait.
C26_NoUncancellableWait ==
    [][\A th \in Threads :
          (/\ frames[th].expired
           /\ frames[th].pc = "calls"
           /\ frames'[th] # frames[th])
          => (frames'[th].pc = "done" /\ ~frames'[th].ok /\ frames'[th].err # NoErr)]_vars

(* Properties of what a successful Launch hands out (checked under Spec).  *)
\* C31 as stated: a Launch that returns a tab and no error returns a tab
\* whose target id is not empty and is the id of a target of type "page" in
\* the target list of the successful attempt, whatever that list holds.
C31_TabHasPageTarget ==
    [][(pc = "connected" /\ pc' = "idle" /\ hs.err = NoErr) =>
          LET n == Len(tabs')
          IN  /\ ret'.tab = n
              /\ tabs'[n].id # ""
              /\ \E i \in 1..Len(hs.targets) :
                    hs.targets[i].type = "page" /\ hs.targets[i].id = tabs'[n].id]_vars

(* Properties of the client after a failed hook (checked under SpecTab).   *)
\* C32 as stated: GetClient hands out a client only when every hook has
\* completed on it, and after a connect that failed in a hook no later
\* operation issues protocol calls on the client of that connect.
C32_ClientOnlyAfterHooks ==
    /\ (lastOp.op = "GetClient" /\ lastOp.client # 0) =>
          hist[lastOp.tab].status # "hookfail"
    /\ (lastOp.op \in ProtocolOps /\ lastOp.pre = "hookfail" /\ lastOp.dials = 0) =>
          lastOp.calls = <<>>

(* Properties of the process after a failed handshake (checked under      *)
(* SpecProcess).                                                           *)
\* The error of a handshake that used up its attempts: the 5th attempt's.
HandshakeExhausted(e) ==
    e # NoErr /\ e[1] \in {"version", "dial", "targets"} /\ e[3] = MaxTries

\* C33: when the process has started and the handshake uses up its
\* attempts, Launch returns that error and no tab and leaves the process as
\* it is, unsignalled and still the facade's command; a Terminate that
\* follows returns no error and kills the process if it is still running.
C33_ProcessLeftToTerminate ==
    [][/\ (pc = "connected" /\ pc' = "idle" /\ HandshakeExhausted(hs.err)) =>
             /\ ret'.op = "Launch" /\ ret'.tab = 0 /\ ret'.err = hs.err
             /\ tabs' = tabs
             /\ command' = command /\ command.set /\ command.proc # 0
             /\ procs' = procs
             /\ procs[command.proc].signal = ""
       /\ (ret.op = "Launch" /\ HandshakeExhausted(ret.err) /\ ret'.op = "Terminate") =>
             /\ ret'.err = NoErr
             /\ ~crashed'
             /\ procs[command.proc].state = "running" =>
                   procs'[command.proc] = [state |-> "exited", signal |-> "killed"]]_vars

\* Launch has returned the error of the 5th attempt and no tab, and the
\* process it started is running.
C33_Witness ==
    /\ ret.op = "Launch" /\ ret.tab = 0
    /\ HandshakeExhausted(ret.err)
    /\ tabs = <<>>
    /\ command.proc # 0
    /\ procs[command.proc] = [state |-> "running", signal |-> ""]

=============================================================================
